---- MODULE Spec2Model ----
(***************************************************************************)
(* Model of scripts/bytecodecompare/prepare_report.py: the bytecode report *)
(* generator.  Text (file names, source text, report lines) is a sequence  *)
(* of one-character strings, so that "byte-identical" is sequence equality *)
(* and prefixes, occurrences and orderings are computed, not assumed.      *)
(***************************************************************************)
EXTENDS Integers, Sequences, FiniteSets, TLC

VARIABLES
    source_file_names,  \* generate_report's argument: the names as discovered
    smt_use,            \* generate_report's argument: the SMTUse member
    files,              \* the file system: path -> text, or Unreadable
    compiler,           \* the compiler binary: (file key, optimize) -> behaviour
    optimize_index,     \* position of the outer loop in [False, True]
    file_index,         \* position of the inner loop in sorted(source_file_names)
    pc,                 \* where generate_report is
    compiler_input,     \* run_compiler: the payload of the current pair
    process,            \* run_compiler: the completed subprocess
    report,             \* generate_report: the FileReport of the current pair
    report_file,        \* the text of report.txt
    stderr,             \* what generate_report printed to sys.stderr
    exception,          \* the exception that left generate_report, or "None"
    invoked,            \* the subprocesses spawned so far, with their input
    reports,            \* the FileReports written to report.txt so far
    run,                \* 1 in the first run of the script, 2 in a second run
    previous            \* the first run's report.txt, inputs and outputs

vars == <<source_file_names, smt_use, files, compiler, optimize_index, file_index,
          pc, compiler_input, process, report, report_file, stderr, exception,
          invoked, reports, run, previous>>

----------------------------------------------------------------------------
(* Optional[T]: None is the empty sequence, a present value v is <<v>>.    *)

None == <<>>

Some(v) == <<v>>

IsNone(o) == Len(o) = 0

----------------------------------------------------------------------------
(* Python str: comparison is by code point, position by position, a proper *)
(* prefix first.  Ord lists the code points of the characters that occur   *)
(* in the file names and the keys that are sorted.                         *)

Ord ==
    ("." :> 46) @@ ("/" :> 47) @@ ("1" :> 49) @@ ("2" :> 50) @@
    ("A" :> 65) @@ ("B" :> 66) @@ ("C" :> 67) @@
    ("a" :> 97) @@ ("b" :> 98) @@ ("c" :> 99) @@ ("d" :> 100) @@
    ("l" :> 108) @@ ("o" :> 111) @@ ("s" :> 115)

Min(a, b) == IF a < b THEN a ELSE b

StrLess(s, t) ==
    \E i \in 1..(Min(Len(s), Len(t)) + 1) :
        /\ \A j \in 1..(i - 1) : s[j] = t[j]
        /\ \/ i > Len(s) /\ i <= Len(t)
           \/ i <= Len(s) /\ i <= Len(t) /\ Ord[s[i]] < Ord[t[i]]

(* sorted() over a list of tuples whose first components are distinct      *)
(* strings (the items of a dict): tuples compare by their first component. *)
(* Insertion from the left keeps the order of equal elements (stable).     *)
RECURSIVE InsertSorted(_, _)
InsertSorted(e, s) ==
    IF s = <<>> THEN <<e>>
    ELSE IF StrLess(e[1], Head(s)[1]) THEN <<e>> \o s
    ELSE <<Head(s)>> \o InsertSorted(e, Tail(s))

UnsortedItems(items) == items

RECURSIVE SortedItems(_)
SortedItems(items) ==
    IF items = <<>> THEN <<>>
    ELSE InsertSorted(items[Len(items)], SortedItems(SubSeq(items, 1, Len(items) - 1)))

UnsortedNames(names) == names

(* sorted() over a list of str *)
SortedNames(names) ==
    LET wrapped == SortedItems([i \in 1..Len(names) |-> <<names[i]>>])
    IN  [i \in 1..Len(names) |-> wrapped[i][1]]

RECURSIVE Concat(_)
Concat(seqs) == IF seqs = <<>> THEN <<>> ELSE Head(seqs) \o Concat(Tail(seqs))

----------------------------------------------------------------------------
(* pathlib.Path over relative POSIX paths: str(Path(s)) drops empty and    *)
(* "." components; Path(s).name is the last component.                     *)

RECURSIVE SplitPath(_)
SplitPath(s) ==
    IF \A i \in 1..Len(s) : s[i] # "/" THEN <<s>>
    ELSE LET k == CHOOSE i \in 1..Len(s) : s[i] = "/" /\ \A j \in 1..(i - 1) : s[j] # "/"
         IN  <<SubSeq(s, 1, k - 1)>> \o SplitPath(SubSeq(s, k + 1, Len(s)))

PathParts(s) == SelectSeq(SplitPath(s), LAMBDA part : part # <<>> /\ part # <<".">>)

RECURSIVE JoinPath(_)
JoinPath(parts) ==
    IF Len(parts) = 0 THEN <<".">>
    ELSE IF Len(parts) = 1 THEN parts[1]
    ELSE parts[1] \o <<"/">> \o JoinPath(Tail(parts))

Path(s) == JoinPath(PathParts(s))

PathName(s) == LET parts == PathParts(s) IN IF Len(parts) = 0 THEN <<>> ELSE parts[Len(parts)]

----------------------------------------------------------------------------
(* class SMTUse *)

PRESERVE == "preserve"

DISABLE == "disable"

STRIP_PRAGMAS == "strip-pragmas"

SMTUse == {PRESERVE, DISABLE, STRIP_PRAGMAS}

----------------------------------------------------------------------------
(* load_source *)

Unreadable == <<"<unreadable>">>

\* 'pragma experimental SMTChecker' without its semicolon
PragmaHead ==
    <<"p", "r", "a", "g", "m", "a", " ",
      "e", "x", "p", "e", "r", "i", "m", "e", "n", "t", "a", "l", " ",
      "S", "M", "T", "C", "h", "e", "c", "k", "e", "r">>

\* 'pragma experimental SMTChecker;'
SMTCheckerPragma == PragmaHead \o <<";">>

StartsWithAt(s, i, old) ==
    /\ i + Len(old) - 1 <= Len(s)
    /\ \A j \in 1..Len(old) : s[i + j - 1] = old[j]

Occurs(s, old) == \E i \in 1..Len(s) : StartsWithAt(s, i, old)

\* str.replace(old, new) from position i on: find the next occurrence, copy
\* the text before it, put new in its place and go on behind it.  Occurrences
\* are taken from the left and do not overlap; the text produced is not
\* searched again.
RECURSIVE ReplaceFrom(_, _, _, _)
ReplaceFrom(s, i, old, new) ==
    IF \A j \in i..Len(s) : ~StartsWithAt(s, j, old) THEN SubSeq(s, i, Len(s))
    ELSE LET k == CHOOSE j \in i..Len(s) :
                      StartsWithAt(s, j, old) /\ \A h \in i..(j - 1) : ~StartsWithAt(s, h, old)
         IN  SubSeq(s, i, k - 1) \o new \o ReplaceFrom(s, k + Len(old), old, new)

Replace(s, old, new) == ReplaceFrom(s, 1, old, new)

\* the text load_source returns for a file it could read
load_source(file_content, smt) ==
    IF smt = STRIP_PRAGMAS THEN Replace(file_content, SMTCheckerPragma, <<>>)
    ELSE file_content

----------------------------------------------------------------------------
(* JSON.  A text is NotJson or a JSON value as written: an object lists    *)
(* its members in the order of the text and may repeat a key.  json.loads  *)
(* turns an object into a dict: one entry per key, at the place the key    *)
(* came first, holding the value that came last.  White space around the  *)
(* text, which parse_standard_json_output strips and json.loads skips, is  *)
(* not represented.  The elements of a list are plain strings.             *)

NotJson == [t |-> "invalid"]

JNull == [t |-> "null"]

JStr(s) == [t |-> "str", s |-> s]

JBool(b) == [t |-> "bool", b |-> b]

JList(e) == [t |-> "list", e |-> e]

JObj(m) == [t |-> "obj", m |-> m]

EmptyDict == JObj(<<>>)

IsDict(v) == v.t = "obj"

HasKey(d, k) == \E i \in 1..Len(d.m) : d.m[i][1] = k

Get(d, k) == d.m[CHOOSE i \in 1..Len(d.m) : d.m[i][1] = k][2]

\* dict.get(k, default)
GetOr(d, k, default) == IF HasKey(d, k) THEN Get(d, k) ELSE default

SetItem(m, k, v) ==
    IF \E i \in 1..Len(m) : m[i][1] = k
    THEN LET at == CHOOSE i \in 1..Len(m) : m[i][1] = k
         IN  SubSeq(m, 1, at - 1) \o << <<k, v>> >> \o SubSeq(m, at + 1, Len(m))
    ELSE Append(m, <<k, v>>)

RECURSIVE DictFromPairs(_)
DictFromPairs(pairs) ==
    IF pairs = <<>> THEN <<>>
    ELSE LET last == pairs[Len(pairs)]
         IN  SetItem(DictFromPairs(SubSeq(pairs, 1, Len(pairs) - 1)), last[1], last[2])

RECURSIVE json_loads(_)
RECURSIVE LoadMembers(_)
LoadMembers(m) ==
    IF m = <<>> THEN <<>>
    ELSE << <<m[1][1], json_loads(m[1][2])>> >> \o LoadMembers(Tail(m))

json_loads(v) == IF v.t = "obj" THEN JObj(DictFromPairs(LoadMembers(v.m))) ELSE v

\* a JSON string is a str, null is None
OptionalStr(v) == IF v.t = "str" THEN Some(v.s) ELSE None

\* dict.items()
Items(d) == d.m

----------------------------------------------------------------------------
(* parse_standard_json_output *)

ContractReport(contract_name, file_name, bytecode, metadata) ==
    [contract_name |-> contract_name, file_name |-> file_name,
     bytecode |-> bytecode, metadata |-> metadata]

FileReport(file_name, contract_reports) ==
    [file_name |-> file_name, contract_reports |-> contract_reports]

\* contract_results.get('evm', {}).get('bytecode', {}).get('object')
BytecodeObject(contract_results) ==
    LET evm      == GetOr(contract_results, "evm", EmptyDict)
        bytecode == GetOr(evm, "bytecode", EmptyDict)
    IN  IF HasKey(bytecode, "object") THEN OptionalStr(Get(bytecode, "object")) ELSE None

\* contract_results.get('metadata')
Metadata(contract_results) ==
    IF HasKey(contract_results, "metadata")
    THEN OptionalStr(Get(contract_results, "metadata"))
    ELSE None

\* whether building the ContractReport calls .get on something that is no dict
ContractRaises(contract_results) ==
    \/ ~IsDict(contract_results)
    \/ /\ HasKey(contract_results, "evm")
       /\ \/ ~IsDict(Get(contract_results, "evm"))
          \/ /\ HasKey(Get(contract_results, "evm"), "bytecode")
             /\ ~IsDict(Get(Get(contract_results, "evm"), "bytecode"))

ContractsKey == <<"c", "o", "n", "t", "r", "a", "c", "t", "s">>

\* 'contracts' in decoded_json_output, for a decoded value that has members:
\* a key of a dict, an element of a list, a part of a str
ContainsContracts(decoded) ==
    CASE decoded.t = "obj" -> HasKey(decoded, "contracts")
      [] decoded.t = "list" -> \E i \in 1..Len(decoded.e) : decoded.e[i] = "contracts"
      [] decoded.t = "str" -> Occurs(decoded.s, ContractsKey)

\* the exception parse_standard_json_output raises on this output, or "None"
ParseException(standard_json_output) ==
    IF standard_json_output.t = "invalid" THEN "JSONDecodeError"
    ELSE LET decoded == json_loads(standard_json_output)
         IN  IF decoded.t \notin {"obj", "list", "str"} THEN "TypeError"
             ELSE IF ~ContainsContracts(decoded) THEN "None"
             ELSE IF ~IsDict(decoded) THEN "TypeError"
             ELSE LET contracts == Get(decoded, "contracts")
                  IN  IF ~IsDict(contracts) THEN "AttributeError"
                      ELSE IF \E i \in 1..Len(contracts.m) :
                                 \/ ~IsDict(contracts.m[i][2])
                                 \/ \E j \in 1..Len(contracts.m[i][2].m) :
                                        ContractRaises(contracts.m[i][2].m[j][2])
                           THEN "AttributeError"
                           ELSE "None"

\* the inner loop: the ContractReports of one file of the output
FileContractReports(file_name, file_results) ==
    LET sorted_results == SortedItems(Items(file_results))
    IN  [j \in 1..Len(sorted_results) |->
            ContractReport(sorted_results[j][1], Path(file_name),
                           BytecodeObject(sorted_results[j][2]),
                           Metadata(sorted_results[j][2]))]

AllContractReportsInDocumentOrder(contracts) ==
    Concat([i \in 1..Len(Items(contracts)) |->
               FileContractReports(Items(contracts)[i][1], Items(contracts)[i][2])])

\* the outer loop
AllContractReports(contracts) ==
    LET sorted_files == SortedItems(Items(contracts))
    IN  Concat([i \in 1..Len(sorted_files) |->
                   FileContractReports(sorted_files[i][1], sorted_files[i][2])])

parse_ignoring_contracts_key(source_file_name, standard_json_output) ==
    LET decoded == json_loads(standard_json_output)
    IN  IF ~ContainsContracts(decoded) \/ Get(decoded, "contracts").m = <<>>
        THEN FileReport(source_file_name, None)
        ELSE FileReport(source_file_name, Some(AllContractReports(Get(decoded, "contracts"))))

\* the FileReport parse_standard_json_output returns when it raises nothing
parse_standard_json_output(source_file_name, standard_json_output) ==
    LET decoded == json_loads(standard_json_output)
    IN  IF ~ContainsContracts(decoded)
        THEN FileReport(source_file_name, None)
        ELSE FileReport(source_file_name, Some(AllContractReports(Get(decoded, "contracts"))))

----------------------------------------------------------------------------
(* FileReport.format_report *)

ErrorSuffix == <<":", " ", "<", "E", "R", "R", "O", "R", ">", "\n">>

NoBytecode == <<"<", "N", "O", " ", "B", "Y", "T", "E", "C", "O", "D", "E", ">">>

NoMetadata == <<"<", "N", "O", " ", "M", "E", "T", "A", "D", "A", "T", "A", ">">>

ContractLinesOfInnerFile(file_name, contract_report) ==
    LET bytecode == IF ~IsNone(contract_report.bytecode)
                    THEN contract_report.bytecode[1] ELSE NoBytecode
        metadata == IF ~IsNone(contract_report.metadata)
                    THEN contract_report.metadata[1] ELSE NoMetadata
    IN  contract_report.file_name \o <<":">> \o contract_report.contract_name \o <<" ">>
        \o bytecode \o <<"\n">>
        \o contract_report.file_name \o <<":">> \o contract_report.contract_name \o <<" ">>
        \o metadata \o <<"\n">>

\* the two lines of one ContractReport
ContractLines(file_name, contract_report) ==
    LET bytecode == IF ~IsNone(contract_report.bytecode)
                    THEN contract_report.bytecode[1] ELSE NoBytecode
        metadata == IF ~IsNone(contract_report.metadata)
                    THEN contract_report.metadata[1] ELSE NoMetadata
    IN  file_name \o <<":">> \o contract_report.contract_name \o <<" ">> \o bytecode \o <<"\n">>
        \o file_name \o <<":">> \o contract_report.contract_name \o <<" ">> \o metadata \o <<"\n">>

format_report_none_as_empty(file_report) ==
    IF IsNone(file_report.contract_reports) THEN <<>>
    ELSE LET contract_reports == file_report.contract_reports[1]
         IN  Concat([i \in 1..Len(contract_reports) |->
                        ContractLines(file_report.file_name, contract_reports[i])])

format_report(file_report) ==
    IF IsNone(file_report.contract_reports)
    THEN file_report.file_name \o ErrorSuffix
    ELSE LET contract_reports == file_report.contract_reports[1]
         IN  Concat([i \in 1..Len(contract_reports) |->
                        ContractLines(file_report.file_name, contract_reports[i])])

----------------------------------------------------------------------------
(* prepare_compiler_input *)

CompilerPath == "solc"

prepare_compiler_input_disabling_unless_preserve(compiler_path, source_file_name, file_content, optimize, smt) ==
    LET settings ==
            << <<"optimizer", JObj(<< <<"enabled", JBool(optimize)>> >>)>>,
               <<"outputSelection",
                 JObj(<< <<"*", JObj(<< <<"*", JList(<<"evm.bytecode.object", "metadata">>)>> >>)>> >>)>> >>
        json_input ==
            JObj(<< <<"language", JStr("Solidity")>>,
                    <<"sources",
                      JObj(<< <<source_file_name,
                                JObj(<< <<"content", JStr(load_source(file_content, smt))>> >>)>> >>)>>,
                    <<"settings",
                      JObj(IF smt # PRESERVE
                           THEN SetItem(settings, "modelChecker", JObj(<< <<"engine", JStr("none")>> >>))
                           ELSE settings)>> >>)
    IN  [command_line |-> <<compiler_path, "--standard-json">>, compiler_input |-> json_input]

prepare_compiler_input(compiler_path, source_file_name, file_content, optimize, smt) ==
    LET settings ==
            << <<"optimizer", JObj(<< <<"enabled", JBool(optimize)>> >>)>>,
               <<"outputSelection",
                 JObj(<< <<"*", JObj(<< <<"*", JList(<<"evm.bytecode.object", "metadata">>)>> >>)>> >>)>> >>
        json_input ==
            JObj(<< <<"language", JStr("Solidity")>>,
                    <<"sources",
                      JObj(<< <<source_file_name,
                                JObj(<< <<"content", JStr(load_source(file_content, smt))>> >>)>> >>)>>,
                    <<"settings",
                      JObj(IF smt = DISABLE
                           THEN SetItem(settings, "modelChecker", JObj(<< <<"engine", JStr("none")>> >>))
                           ELSE settings)>> >>)
    IN  [command_line |-> <<compiler_path, "--standard-json">>, compiler_input |-> json_input]

\* what the payload says: its one file key, its text, its optimizer flag
InputFileKey(payload) == Get(payload, "sources").m[1][1]

InputContent(payload) == Get(Get(payload, "sources").m[1][2], "content").s

InputOptimize(payload) == Get(Get(Get(payload, "settings"), "optimizer"), "enabled").b

----------------------------------------------------------------------------
(* The compiler: an external program, a fixed function from the payload to *)
(* its output text and exit status.                                        *)

Hex(optimize) == IF optimize THEN <<"6", "1">> ELSE <<"6", "0">>

\* a successful compilation of two contracts, listed C2 before C1
GoodDoc(file_key, optimize) ==
    JObj(<< <<"contracts",
              JObj(<< <<file_key,
                        JObj(<< <<(<<"C", "2">>),
                                  JObj(<< <<"metadata", JStr(<<"m", "2">>)>>,
                                          <<"evm", JObj(<< <<"bytecode",
                                                JObj(<< <<"object", JStr(Hex(optimize))>> >>)>> >>)>> >>)>>,
                                <<(<<"C", "1">>),
                                  JObj(<< <<"evm", JObj(<< <<"bytecode",
                                                JObj(<< <<"object", JStr(Hex(optimize))>> >>)>> >>)>>,
                                          <<"metadata", JStr(<<"m", "1">>)>> >>)>> >>)>> >>)>>,
            <<"sources", JObj(<< <<file_key, JObj(<< <<"id", JStr(<<"0">>)>> >>)>> >>)>> >>)

\* a failed compilation: errors and no "contracts"
ErrorDoc == JObj(<< <<"errors", JList(<<"ParserError">>)>> >>)

Reverse(s) == [i \in 1..Len(s) |-> s[Len(s) + 1 - i]]

\* a text of the same mapping with the keys of every object in the opposite
\* order: each key once, with the value the document gives it
RECURSIVE ReverseMembers(_)
ReverseMembers(v) ==
    IF v.t = "obj"
    THEN JObj(Reverse([i \in 1..Len(v.m) |-> <<v.m[i][1], ReverseMembers(v.m[i][2])>>]))
    ELSE v

ReverseKeys(v) == ReverseMembers(json_loads(v))

CompilerOutput(the_compiler, input) ==
    LET behaviour == the_compiler.behaviour[<<InputFileKey(input), InputOptimize(input)>>]
        stdout ==
            CASE behaviour \in {"ok", "ok-nonzero"} ->
                     GoodDoc(InputFileKey(input), InputOptimize(input))
              [] behaviour = "error" -> ErrorDoc
              [] behaviour = "crash" -> NotJson
              [] OTHER -> the_compiler.doc
    IN  [stdout |-> IF the_compiler.key_order = "reversed" THEN ReverseKeys(stdout) ELSE stdout,
         returncode |-> IF behaviour \in {"ok-nonzero", "crash"} THEN 1 ELSE 0]

----------------------------------------------------------------------------
(* run_compiler and generate_report *)

OptimizeLevels == <<FALSE, TRUE>>

Optimize == OptimizeLevels[optimize_index]

SortedSourceFileNames == SortedNames(source_file_names)

CurrentFile == SortedSourceFileNames[file_index]

CheckTrue == TRUE

\* subprocess.run's check argument, which run_compiler leaves at its default
Check == FALSE

\* the position after the pair at (oi, fi): the next file, the next level, or the end
LoopFrom(oi, fi) ==
    IF fi <= Len(source_file_names) THEN [optimize_index |-> oi, file_index |-> fi, pc |-> "prepare"]
    ELSE IF oi < Len(OptimizeLevels) /\ Len(source_file_names) > 0
    THEN [optimize_index |-> oi + 1, file_index |-> 1, pc |-> "prepare"]
    ELSE [optimize_index |-> oi, file_index |-> fi, pc |-> "done"]

Retried(exc) ==
    /\ stderr' = Append(stderr, <<"Interrupted by an exception", CurrentFile, Optimize>>)
    /\ exception' = exc
    /\ pc' = "prepare"

\* the bare except clause: name the pair on stderr and raise again
Interrupted(exc) ==
    /\ stderr' = Append(stderr, <<"Interrupted by an exception", CurrentFile, Optimize>>)
    /\ exception' = exc
    /\ pc' = "raised"

\* with open('report.txt', mode='w'): report.txt is created or emptied
OpenReport ==
    /\ pc = "start"
    /\ report_file' = <<>>
    /\ LET next == LoopFrom(1, 1)
       IN  /\ optimize_index' = next.optimize_index
           /\ file_index' = next.file_index
           /\ pc' = next.pc
    /\ UNCHANGED <<source_file_names, smt_use, files, compiler, compiler_input, process,
                   report, stderr, exception, invoked, reports, run, previous>>

\* run_compiler, first line: prepare_compiler_input on the base name, which
\* opens that name (load_source) and raises when it cannot be read
PrepareInput ==
    /\ pc = "prepare"
    /\ LET name == PathName(CurrentFile)
       IN  IF name \notin DOMAIN files \/ files[name] = Unreadable
           THEN /\ Interrupted("OSError")
                /\ UNCHANGED compiler_input
           ELSE /\ compiler_input' =
                       Some(prepare_compiler_input(CompilerPath, name, files[name], Optimize, smt_use))
                /\ pc' = "run"
                /\ UNCHANGED <<stderr, exception>>
    /\ UNCHANGED <<source_file_names, smt_use, files, compiler, optimize_index, file_index,
                   process, report, report_file, invoked, reports, run, previous>>

\* run_compiler: subprocess.run, which waits for the compiler and captures its output
RunCompiler ==
    /\ pc = "run"
    /\ LET completed == CompilerOutput(compiler, compiler_input[1].compiler_input)
       IN  /\ process' = Some(completed)
           /\ invoked' = Append(invoked, [command_line |-> compiler_input[1].command_line,
                                          file_key |-> InputFileKey(compiler_input[1].compiler_input),
                                          optimize |-> InputOptimize(compiler_input[1].compiler_input),
                                          returncode |-> completed.returncode])
           /\ IF Check /\ completed.returncode # 0
              THEN /\ stderr' = stderr \o << <<"Interrupted by an exception", CurrentFile, Optimize>>,
                                             <<"COMPILER STDOUT", CurrentFile, Optimize>>,
                                             <<"COMPILER STDERR", CurrentFile, Optimize>> >>
                   /\ exception' = "CalledProcessError"
                   /\ pc' = "raised"
              ELSE /\ pc' = "parse"
                   /\ UNCHANGED <<stderr, exception>>
    /\ UNCHANGED <<source_file_names, smt_use, files, compiler, optimize_index, file_index,
                   compiler_input, report, report_file, reports, run, previous>>

\* run_compiler, last line: parse_standard_json_output on the captured stdout
ParseOutput ==
    /\ pc = "parse"
    /\ IF ParseException(process[1].stdout) # "None"
       THEN /\ Interrupted(ParseException(process[1].stdout))
            /\ UNCHANGED report
       ELSE /\ report' = Some(parse_standard_json_output(Path(CurrentFile), process[1].stdout))
            /\ pc' = "write"
            /\ UNCHANGED <<stderr, exception>>
    /\ UNCHANGED <<source_file_names, smt_use, files, compiler, optimize_index, file_index,
                   compiler_input, process, report_file, invoked, reports, run, previous>>

\* report_file.write(report.format_report()), and on to the next pair
WriteReport ==
    /\ pc = "write"
    /\ report_file' = report_file \o format_report(report[1])
    /\ reports' = Append(reports, [optimize |-> Optimize, source_file_name |-> CurrentFile,
                                   file_report |-> report[1]])
    /\ LET next == LoopFrom(optimize_index, file_index + 1)
       IN  /\ optimize_index' = next.optimize_index
           /\ file_index' = next.file_index
           /\ pc' = next.pc
    /\ UNCHANGED <<source_file_names, smt_use, files, compiler, compiler_input, process,
                   report, stderr, exception, invoked, run, previous>>

Next == OpenReport \/ PrepareInput \/ RunCompiler \/ ParseOutput \/ WriteReport

----------------------------------------------------------------------------
(* The inputs: what is in the working directory, which compiler is given,  *)
(* and the arguments of generate_report.                                   *)

MaxFiles == 2

MaxContracts == 2

MaxChunks == 4

B_sol == <<"B", ".", "s", "o", "l">>

a_sol == <<"a", ".", "s", "o", "l">>

dot_d_a_sol == <<".", "/", "d", "/", "a", ".", "s", "o", "l">>

FileNames == {B_sol, a_sol, dot_d_a_sol}

Injective(s) == \A i, j \in DOMAIN s : s[i] = s[j] => i = j

\* the lists glob can hand over: distinct names, in any order
NameLists == {s \in UNION {[1..n -> FileNames] : n \in 0..MaxFiles} : Injective(s)}

BaseNames == {PathName(n) : n \in FileNames}

SourceText(name) == IF name = a_sol THEN SMTCheckerPragma \o <<"C">> ELSE <<"D">>

FileSystems ==
    {[n \in BaseNames |-> IF n \in U THEN Unreadable ELSE SourceText(n)] : U \in SUBSET BaseNames}

TextChunks == {PragmaHead, <<";">>, <<"C">>}

Texts == {Concat(cs) : cs \in UNION {[1..n -> TextChunks] : n \in 0..MaxChunks}}

CompilerKeys == BaseNames \X BOOLEAN

Behaviours == {"ok", "ok-nonzero", "error", "crash"}

TableCompilers ==
    {[behaviour |-> b, doc |-> NotJson, key_order |-> "as-is"] : b \in [CompilerKeys -> Behaviours]}

Bytecode(s) == JObj(<< <<"evm", JObj(<< <<"bytecode", JObj(<< <<"object", s>> >>)>> >>)>> >>)

ContractNames == {<<"C">>, <<"C", "1">>, <<"C", "2">>}

\* what the compiler may say about one contract
ContractResults ==
    { JObj(<< <<"evm", JObj(<< <<"bytecode", JObj(<< <<"object", JStr(<<"6", "0">>)>> >>)>> >>)>>,
              <<"metadata", JStr(<<"m">>)>> >>),
      JObj(<<>>),
      JObj(<< <<"evm", JObj(<< <<"bytecode", JObj(<<>>)>> >>)>>, <<"metadata", JStr(<<"m">>)>> >>),
      JObj(<< <<"evm", JObj(<< <<"bytecode", JObj(<< <<"object", JStr(<<>>)>> >>)>> >>)>> >>),
      JObj(<< <<"evm", JObj(<< <<"bytecode", JObj(<< <<"object", JNull>> >>)>> >>)>>,
              <<"metadata", JNull>> >>),
      JObj(<< <<"metadata", JStr(<<"o", "l", "d">>)>>, <<"metadata", JStr(<<"m">>)>> >>),
      JObj(<< <<"evm", JNull>> >>) }

\* the members of one file's object: up to MaxContracts contracts, in any order
ContractLists ==
    {s \in UNION {[1..n -> ContractNames \X ContractResults] : n \in 0..MaxContracts} :
        \A i, j \in DOMAIN s : s[i][1] = s[j][1] => i = j}

SmallList ==
    << <<(<<"C", "2">>), Bytecode(JStr(<<"6", "0">>))>>,
       <<(<<"C", "1">>), JObj(<< <<"metadata", JStr(<<"m">>)>> >>)>> >>

Docs ==
    {JObj(<< <<"contracts", JObj(<< <<a_sol, JObj(cs)>> >>)>> >>) : cs \in ContractLists}
    \cup
    {JObj(<< <<"contracts", JObj(<< <<f[1], JObj(c1)>>, <<f[2], JObj(c2)>> >>)>> >>) :
        f \in {<<a_sol, B_sol>>, <<B_sol, a_sol>>, <<a_sol, a_sol>>},
        c1 \in {<<>>, SmallList}, c2 \in {<<>>, SubSeq(SmallList, 1, 1)}}
    \cup
    { NotJson, JNull, ErrorDoc,
      JList(<<>>), JList(<<"contracts">>), JStr(<<"o", "k">>), JStr(ContractsKey), JBool(TRUE),
      JObj(<< <<"contracts", JNull>> >>),
      JObj(<< <<"errors", JList(<<>>)>>, <<"contracts", JObj(<<>>)>> >>),
      JObj(<< <<"contracts", JObj(<< <<a_sol, JNull>> >>)>> >>) }

DocCompilers ==
    {[behaviour |-> [k \in CompilerKeys |-> "doc"], doc |-> d, key_order |-> "as-is"] : d \in Docs}

OkCompiler == [behaviour |-> [k \in CompilerKeys |-> "ok"], doc |-> NotJson, key_order |-> "as-is"]

\* report.txt as an earlier run left it
StaleReport == <<"s", "t", "a", "l", "e", "\n">>

InitRun ==
    /\ optimize_index = 1
    /\ file_index = 1
    /\ pc = "start"
    /\ compiler_input = None
    /\ process = None
    /\ report = None
    /\ report_file = StaleReport
    /\ stderr = <<>>
    /\ exception = "None"
    /\ invoked = <<>>
    /\ reports = <<>>
    /\ run = 1
    /\ previous = None

\* any list of files, any mode, any file unreadable, any table of compiler behaviours
InitFiles ==
    /\ source_file_names \in NameLists
    /\ smt_use \in SMTUse
    /\ files \in FileSystems
    /\ compiler \in TableCompilers
    /\ InitRun

\* one file, and a compiler that answers with any of the documents
InitDocs ==
    /\ source_file_names \in {<<n>> : n \in FileNames}
    /\ smt_use = DISABLE
    /\ files = [n \in BaseNames |-> SourceText(n)]
    /\ compiler \in DocCompilers
    /\ InitRun

\* one file holding any of the texts, any mode
InitTexts ==
    /\ source_file_names = <<a_sol>>
    /\ smt_use \in SMTUse
    /\ files \in {[n \in BaseNames |-> IF n = a_sol THEN t ELSE SourceText(n)] : t \in Texts}
    /\ compiler = OkCompiler
    /\ InitRun

Init == InitFiles \/ InitDocs \/ InitTexts

Spec == Init /\ [][Next]_vars

----------------------------------------------------------------------------
(* The script run a second time in the same directory with the same        *)
(* compiler: glob may list the files in another order and the compiler may *)
(* write the members of its objects in another order.  The first report is *)
(* kept aside for the comparison.                                          *)

Reorderings(s) == {t \in [DOMAIN s -> {s[i] : i \in DOMAIN s}] : Injective(t)}

Rerun ==
    /\ run = 1
    /\ pc \in {"done", "raised"}
    /\ run' = 2
    /\ previous' = Some(report_file)
    /\ source_file_names' \in Reorderings(source_file_names)
    /\ \E order \in {"as-is", "reversed"} : compiler' = [compiler EXCEPT !.key_order = order]
    /\ optimize_index' = 1
    /\ file_index' = 1
    /\ pc' = "start"
    /\ compiler_input' = None
    /\ process' = None
    /\ report' = None
    /\ stderr' = <<>>
    /\ exception' = "None"
    /\ invoked' = <<>>
    /\ reports' = <<>>
    /\ UNCHANGED <<smt_use, files, report_file>>

NextTwice == Next \/ Rerun

\* the compilers that misbehave on at most one payload
FaultCompilers ==
    {c \in TableCompilers :
        Cardinality({k \in CompilerKeys : c.behaviour[k] # "ok"}) <= 1}

InitFaults ==
    /\ source_file_names \in NameLists
    /\ smt_use \in SMTUse
    /\ files \in FileSystems
    /\ compiler \in FaultCompilers
    /\ InitRun

InitTwice == InitFaults \/ InitDocs

SpecTwice == InitTwice /\ [][NextTwice]_vars

----------------------------------------------------------------------------
(* Properties *)

PairCount == Len(source_file_names)

\* the number, from 1, of the pair the loops are at
PairNumber == (optimize_index - 1) * PairCount + file_index

\* whether the first k FileReports written are those of the first k pairs:
\* the unoptimized level first, the files of each level in sorted order
FirstPairsWritten(k) ==
    /\ Len(reports) = k
    /\ \A i \in 1..k :
          /\ reports[i].optimize = (i > PairCount)
          /\ reports[i].source_file_name \in {source_file_names[j] : j \in 1..PairCount}
          /\ reports[i].file_report.file_name = Path(reports[i].source_file_name)
    /\ \A i, j \in 1..k :
          /\ (i < j /\ j <= PairCount) =>
                 StrLess(reports[i].source_file_name, reports[j].source_file_name)
          /\ j = i + PairCount => reports[j].source_file_name = reports[i].source_file_name
    /\ report_file = Concat([i \in 1..k |-> format_report(reports[i].file_report)])

\* C1: a completed run has written exactly two FileReports per source file:
\* every file in sorted order with optimize = false, then every file in the
\* same order with optimize = true, whatever the order of discovery.
C1_ReportOrder == pc = "done" => FirstPairsWritten(2 * PairCount)

\* a.sol discovered before B.sol, reported after it
C1_Witness ==
    /\ pc = "done"
    /\ source_file_names = <<a_sol, B_sol>>
    /\ Len(reports) = 4
    /\ reports[1].source_file_name = B_sol
    /\ reports[4].source_file_name = a_sol

\* C2: a second run on the same files, mode and compiler leaves a report.txt
\* identical to the first run's, whatever the order in which the names are
\* discovered and the order of the keys in the compiler's documents.
C2_Deterministic == (run = 2 /\ pc \in {"done", "raised"}) => report_file = previous[1]

\* a second run that saw the names unsorted and the keys reversed
C2_Witness ==
    /\ run = 2
    /\ pc = "done"
    /\ compiler.key_order = "reversed"
    /\ Len(source_file_names) = 2
    /\ source_file_names # SortedSourceFileNames
    /\ \E i \in 1..Len(reports) : ~IsNone(reports[i].file_report.contract_reports)

\* C3: when a pair fails the run ends there: the failure leaves
\* generate_report at once, nothing runs after it, the failing pair was
\* invoked at most once and no later pair at all, nothing of the failing pair
\* is in report.txt, and report.txt is the reports of the pairs before it.
C3_AbortKeepsPrefix ==
    [][ /\ pc # "raised"
        /\ exception' # "None" => pc' = "raised"
        /\ pc' = "raised" =>
              /\ exception' # "None"
              /\ report_file' = report_file
              /\ reports' = reports
              /\ FirstPairsWritten(PairNumber - 1)
              /\ Len(invoked') \in {PairNumber - 1, PairNumber}
              /\ \A i \in 1..Len(invoked') :
                    /\ invoked'[i].optimize = (i > PairCount)
                    /\ invoked'[i].file_key =
                           PathName(SortedSourceFileNames[((i - 1) % PairCount) + 1])
      ]_vars

\* a run that died on undecodable output in the optimized level
C3_Witness ==
    /\ pc = "raised"
    /\ exception = "JSONDecodeError"
    /\ optimize_index = 2
    /\ file_index = 2
    /\ Len(reports) = 3

\* C4: the FileReport parsed from a document has no contract-report sequence
\* exactly when the document has no top-level "contracts" key; with the key
\* present and its mapping empty the sequence is present and empty, and
\* writing the report adds nothing to report.txt.
C4_AbsentIffNoContractsKey ==
    [][ /\ (pc = "parse" /\ pc' = "write") =>
              LET decoded == json_loads(process[1].stdout)
                  has_key == IsDict(decoded) /\ HasKey(decoded, "contracts")
              IN  /\ IsNone(report'[1].contract_reports) <=> ~has_key
                  /\ (has_key /\ Get(decoded, "contracts").m = <<>>) =>
                         /\ Len(report'[1].contract_reports) = 1
                         /\ report'[1].contract_reports[1] = <<>>
        /\ (pc = "write" /\ ~IsNone(report[1].contract_reports)
                         /\ report[1].contract_reports[1] = <<>>) =>
              report_file' = report_file
      ]_vars

\* an empty "contracts" mapping was parsed and written
C4_Witness ==
    /\ pc = "done"
    /\ Len(reports) = 2
    /\ report_file = <<>>
    /\ ~IsNone(reports[2].file_report.contract_reports)
    /\ reports[2].file_report.contract_reports[1] = <<>>
    /\ HasKey(json_loads(process[1].stdout), "contracts")
    /\ Get(json_loads(process[1].stdout), "contracts").m = <<>>

\* C5: the FileReport parsed from a document with a "contracts" mapping holds
\* one ContractReport per (inner file, contract) of the mapping, each with the
\* contract's name and its inner file's name, ordered by inner file and then
\* by contract, whatever the order of the keys in the document.
C5_OnePerContractSorted ==
    (pc = "write" /\ ~IsNone(report[1].contract_reports)) =>
        LET contracts == Get(json_loads(process[1].stdout), "contracts")
            entries == UNION {{<<i, j>> : j \in 1..Len(contracts.m[i][2].m)} :
                                 i \in 1..Len(contracts.m)}
            crs == report[1].contract_reports[1]
        IN  /\ Len(crs) = Cardinality(entries)
            /\ \A i \in 1..Len(contracts.m) : \A j \in 1..Len(contracts.m[i][2].m) :
                  Cardinality({h \in 1..Len(crs) :
                                  /\ crs[h].file_name = Path(contracts.m[i][1])
                                  /\ crs[h].contract_name = contracts.m[i][2].m[j][1]}) = 1
            /\ \A g, h \in 1..Len(crs) :
                  g < h => \/ StrLess(crs[g].file_name, crs[h].file_name)
                           \/ /\ crs[g].file_name = crs[h].file_name
                              /\ StrLess(crs[g].contract_name, crs[h].contract_name)

\* a document that lists a.sol before B.sol and C2 before C1
C5_Witness ==
    /\ pc = "write"
    /\ ~IsNone(report[1].contract_reports)
    /\ Len(report[1].contract_reports[1]) = 3
    /\ Len(Get(process[1].stdout, "contracts").m) = 2
    /\ Get(process[1].stdout, "contracts").m[1][1] = a_sol
    /\ Get(process[1].stdout, "contracts").m[2][1] = B_sol
    /\ Get(process[1].stdout, "contracts").m[1][2].m[1][1] = <<"C", "2">>

\* C6: writing a FileReport that has a contract-report sequence adds, per
\* ContractReport and in sequence order, a bytecode line and a metadata line,
\* both starting "<file>:<contract> " with the FileReport's own file name; the
\* bytecode line ends in <NO BYTECODE> exactly when the bytecode is absent,
\* the metadata line in <NO METADATA> exactly when the metadata is absent.
C6_TwoLinesPerContract ==
    [][ (pc = "write" /\ ~IsNone(report[1].contract_reports)) =>
            LET crs == report[1].contract_reports[1]
                prefix(i) == Path(CurrentFile) \o <<":">> \o crs[i].contract_name \o <<" ">>
                bytecode(i) == IF IsNone(crs[i].bytecode) THEN NoBytecode ELSE crs[i].bytecode[1]
                metadata(i) == IF IsNone(crs[i].metadata) THEN NoMetadata ELSE crs[i].metadata[1]
            IN  /\ report_file' =
                       report_file \o
                       Concat([i \in 1..Len(crs) |->
                                  prefix(i) \o bytecode(i) \o <<"\n">> \o
                                  prefix(i) \o metadata(i) \o <<"\n">>])
                /\ \A i \in 1..Len(crs) :
                      /\ bytecode(i) = NoBytecode <=> IsNone(crs[i].bytecode)
                      /\ metadata(i) = NoMetadata <=> IsNone(crs[i].metadata)
      ]_vars

\* a written ContractReport of another file name, without bytecode, with metadata
C6_Witness ==
    /\ Len(reports) >= 1
    /\ ~IsNone(reports[1].file_report.contract_reports)
    /\ \E i \in 1..Len(reports[1].file_report.contract_reports[1]) :
          LET cr == reports[1].file_report.contract_reports[1][i]
          IN  /\ cr.file_name # reports[1].file_report.file_name
              /\ IsNone(cr.bytecode)
              /\ ~IsNone(cr.metadata)

\* C7: writing a FileReport that has no contract-report sequence adds exactly
\* the line "<file>: <ERROR>\n" and nothing else.
C7_ErrorLine ==
    [][ (pc = "write" /\ IsNone(report[1].contract_reports)) =>
            report_file' = report_file \o Path(CurrentFile) \o
                           <<":", " ", "<", "E", "R", "R", "O", "R", ">", "\n">>
      ]_vars

\* an error report was written for ./d/a.sol
C7_Witness ==
    /\ Len(reports) >= 1
    /\ IsNone(reports[1].file_report.contract_reports)
    /\ reports[1].source_file_name = dot_d_a_sol
    /\ Len(report_file) >= 17

\* C8: in strip-pragmas mode the text put into the payload holds no
\* occurrence of the SMTChecker pragma; in the other modes it is the file's text.
C8_NoPragmaLeft ==
    pc = "run" =>
        LET text == files[PathName(CurrentFile)]
            returned == InputContent(compiler_input[1].compiler_input)
        IN  IF smt_use = STRIP_PRAGMAS
            THEN ~Occurs(returned, SMTCheckerPragma)
            ELSE returned = text

\* C9: the payload's settings hold modelChecker, with engine "none", exactly
\* in disable mode, and optimizer.enabled is the optimize argument in every mode.
C9_ModelCheckerIffDisable ==
    pc = "run" =>
        LET settings == Get(compiler_input[1].compiler_input, "settings")
        IN  /\ HasKey(settings, "modelChecker") <=> smt_use = DISABLE
            /\ HasKey(settings, "modelChecker") =>
                   Get(settings, "modelChecker") = JObj(<< <<"engine", JStr("none")>> >>)
            /\ Get(Get(settings, "optimizer"), "enabled") = JBool(Optimize)

\* a payload built in disable mode for the optimized level
C9_Witness ==
    /\ pc = "run"
    /\ smt_use = DISABLE
    /\ Optimize = TRUE
    /\ HasKey(Get(compiler_input[1].compiler_input, "settings"), "modelChecker")

\* C10: the compiler's exit status decides nothing: after the compiler has run
\* its output is parsed, whatever the status; the pair fails exactly when the
\* output cannot be parsed, and the FileReport is the one parsed from the output.
C10_ExitStatusIgnored ==
    [][ /\ pc = "run" => (pc' = "parse" /\ exception' = "None")
        /\ pc = "parse" =>
              /\ pc' = "write" <=> ParseException(process[1].stdout) = "None"
              /\ pc' = "raised" <=> ParseException(process[1].stdout) # "None"
              /\ pc' = "write" =>
                    report'[1] = parse_standard_json_output(Path(CurrentFile), process[1].stdout)
      ]_vars

\* a run that completed although the compiler exited with a non-zero status
C10_Witness ==
    /\ pc = "done"
    /\ Len(reports) = Len(invoked)
    /\ \E i \in 1..Len(invoked) :
          /\ invoked[i].returncode # 0
          /\ ~IsNone(reports[i].file_report.contract_reports)

====
